---------------------------- MODULE Spec2Model ----------------------------
(***************************************************************************)
(* A model of msvc-dev-cmd (src/src/main.rs): the discovery of             *)
(* vcvarsall.bat, the capture and diff of the environment around it, the   *)
(* normalisation of path-list variables, and the launch of the child with  *)
(* its signal handler.                                                     *)
(*                                                                         *)
(* Text is modelled as a sequence of tokens.  The tokens FF, NL, EQ and    *)
(* SEMI are the bytes the program splits on (form feed, line feed, '=',    *)
(* ';'); every other token is a run of text holding none of them.          *)
(***************************************************************************)
EXTENDS Integers, Sequences, FiniteSets, TLC

VARIABLES
    \* ---- setup_msvcdev_cmd ----
    pc,             \* position in main / setup_msvcdev_cmd
    windows,        \* cfg!(windows) of the build
    env,            \* the process environment: EnvKey(name) -> value
    env0,           \* the process environment at program start
    fs,             \* the paths that exist on disk
    vsversion,      \* opt.vsversion: <<>> is None, <<v>> is Some(v)
    query,          \* version_pattern handed to vswhere (<<>>: not asked yet)
    vswhere_result, \* what find_with_vswhere returned (<<>>: Err, or not asked)
    vcvarsall,      \* the script find_vcvarsall returned (<<>>: none)
    err,            \* the error setup_msvcdev_cmd / main bailed with ("": none)
    cmd_output,     \* result.stdout of the cmd run
    parts,          \* cmd_output_parts
    error_messages, \* the lines of the "Invalid parameters" error
    old_env_vars,   \* the before-map
    applied,        \* the set_var calls of the diff loop, in order
    child_env,      \* the environment the child was spawned with
    run,            \* how many times setup_msvcdev_cmd was entered
    env_prev,       \* the environment when the previous run returned (<<>>: none)
    \* ---- filter_path_value alone ----
    fp_in, fp_out,
    \* ---- main: child, mutex, ctrlc handler ----
    child,          \* "none" | "running" | "exited" | "reaped"
    child_status,   \* the child's exit status (-1: none yet)
    lock,           \* holder of the Mutex<Child>: "free" | "main" | "handler"
    handler_set,    \* ctrlc::set_handler has returned
    pending,        \* SIGINTs delivered to the launcher, not yet handled
    delivered,      \* SIGINTs delivered to the launcher in all
    hpc,            \* the ctrlc thread: "idle" | "lock" | "kill" | "panicked"
    forwarded,      \* SIGINTs the child received from the handler while running
    exit_code       \* what the launcher exited with (-1: still running)

setupVars  == <<pc, windows, env, env0, fs, vsversion, query, vswhere_result,
                vcvarsall, err,
                cmd_output, parts, error_messages, old_env_vars, applied,
                child_env, run, env_prev>>
filterVars == <<fp_in, fp_out>>
launchVars == <<child, child_status, lock, handler_set, pending, delivered,
                hpc, forwarded, exit_code>>
vars       == <<setupVars, filterVars, launchVars>>

-----------------------------------------------------------------------------
(* Bounds of the model *)

\* longest path-list value (in tokens) given to filter_path_value alone
MaxLen == 5
\* most segments a transcript is cut into by form feeds
MaxParts == 4
\* most standard installations on disk at once
MaxInstalled == 2
\* most SIGINTs delivered to the launcher
MaxSignals == 2
\* setup_msvcdev_cmd is entered at most this often in one process
MaxRuns == 2

-----------------------------------------------------------------------------
(* Text *)

FF   == "<FF>"
NL   == "<NL>"
EQ   == "="
SEMI == ";"

\* the least index of token d in s, 0 when there is none
IndexOf(s, d) ==
    IF \E i \in 1..Len(s) : s[i] = d
    THEN CHOOSE i \in 1..Len(s) : s[i] = d /\ \A j \in 1..(i-1) : s[j] # d
    ELSE 0

RECURSIVE Split(_, _)
\* str::split / slice::split: n delimiters give n+1 pieces, empty ones kept
Split(s, d) ==
    LET i == IndexOf(s, d) IN
    IF i = 0 THEN << s >>
    ELSE << SubSeq(s, 1, i-1) >> \o Split(SubSeq(s, i+1, Len(s)), d)

RECURSIVE Join(_, _)
\* [T]::join
Join(ps, d) ==
    IF Len(ps) = 0 THEN << >>
    ELSE IF Len(ps) = 1 THEN ps[1]
    ELSE ps[1] \o << d >> \o Join(Tail(ps), d)

\* str::contains for a one-token needle
Contains(s, t) == \E i \in 1..Len(s) : s[i] = t

\* str::split_once('='), for a line that contains '='
SplitOnce(s, d) ==
    LET i == IndexOf(s, d) IN << SubSeq(s, 1, i-1), SubSeq(s, i+1, Len(s)) >>

Range(s) == { s[i] : i \in 1..Len(s) }

\* the sequences that list every element of the finite set S once
Perms(S) ==
    { p \in [1..Cardinality(S) -> S] : \A x \in S : \E i \in DOMAIN p : p[i] = x }

RECURSIVE SeqsUpTo(_, _)
\* the sequences over S of length at most n
SeqsUpTo(S, n) ==
    IF n = 0 THEN { << >> }
    ELSE LET R == SeqsUpTo(S, n-1) IN
         R \cup { Append(r, x) : r \in { q \in R : Len(q) = n-1 }, x \in S }


-----------------------------------------------------------------------------
(* Constants of the program *)

EDITIONS == << "Enterprise", "Professional", "Community", "Preview", "BuildTools" >>

YEARS == << "2022", "2019", "2017", "2015" >>

PATH_LIKE_VARIABLES == { << "PATH" >>, << "INCLUDE" >>, << "LIB" >>, << "LIBPATH" >> }

\* Constants::vs_year_version
vs_year_version ==
    ("2022" :> "17.0") @@ ("2019" :> "16.0") @@ ("2017" :> "15.0") @@
    ("2015" :> "14.0") @@ ("2013" :> "12.0")

\* v.split(".")[0] for the version numbers of vs_year_version
upper_bound(v) ==
    CASE v = "17.0" -> "17" [] v = "16.0" -> "16" [] v = "15.0" -> "15"
      [] v = "14.0" -> "14" [] v = "12.0" -> "12" [] OTHER -> v

\* the names of the two variables Constants::new reads
KEY_PF86 == << "ProgramFiles(x86)" >>
KEY_PF   == << "ProgramFiles" >>

VCVARSALL_REL == << "VC/Auxiliary/Build/vcvarsall.bat" >>
INSTALLER_REL == << "Microsoft Visual Studio/Installer" >>
LEGACY_REL    == << "Microsoft Visual C++ Build Tools/vcbuildtools.bat" >>

-----------------------------------------------------------------------------
(* The process environment (Windows: names are case-insensitive) *)

\* char::to_uppercase on the tokens of the model that hold lower-case letters
ToUpper(t) ==
    CASE t = "Path"              -> "PATH"
      [] t = "ProgramFiles(x86)" -> "PROGRAMFILES(X86)"
      [] t = "ProgramFiles"      -> "PROGRAMFILES"
      [] OTHER                   -> t

\* str::to_uppercase
to_uppercase(name) == [ i \in 1..Len(name) |-> ToUpper(name[i]) ]

\* the key a name has in the process environment
EnvKey(name) == to_uppercase(name)

\* env::var_os: << >> is None, << v >> is Some(v)
var_os(e, key) == IF EnvKey(key) \in DOMAIN e THEN << e[EnvKey(key)] >> ELSE << >>

\* env::set_var
set_var(e, name, value) ==
    [ k \in DOMAIN e \cup { EnvKey(name) } |-> IF k = EnvKey(name) THEN value ELSE e[k] ]

\* u8::to_ascii_lowercase, token-wise: only the letters A-Z fold
AsciiLower(t) ==
    CASE t = "FOO" -> "foo" [] OTHER -> t

\* str::eq_ignore_ascii_case
eq_ignore_ascii_case(a, b) ==
    /\ Len(a) = Len(b)
    /\ \A i \in 1..Len(a) : AsciiLower(a[i]) = AsciiLower(b[i])

-----------------------------------------------------------------------------
(* Constants and find_vcvarsall *)

\* pathbuf_from_key succeeds
has_key(e, key) == var_os(e, key) # << >>

program_files_x86(e) == e[EnvKey(KEY_PF86)]

\* Constants::program_files: the x86 root first
program_files(e) == << e[EnvKey(KEY_PF86)], e[EnvKey(KEY_PF)] >>

\* Constants::vswhere_path before canonicalize
vswhere_path(e) == program_files_x86(e) \o INSTALLER_REL

\* Constants::new returns Ok
constants_new_ok(e, disk) ==
    /\ has_key(e, KEY_PF86)
    /\ has_key(e, KEY_PF)
    /\ vswhere_path(e) \in disk

vsversion_to_versionnumber(v) ==
    IF v # << >> /\ v[1] \in DOMAIN vs_year_version
    THEN << vs_year_version[v[1]] >>
    ELSE << >>

vsversion_to_year(v) ==
    IF \E y \in DOMAIN vs_year_version : vs_year_version[y] = v
    THEN CHOOSE y \in DOMAIN vs_year_version : vs_year_version[y] = v
    ELSE v

\* the vswhere query of find_vcvarsall
version_pattern(v) ==
    LET n == vsversion_to_versionnumber(v) IN
    IF n # << >> THEN << "-version", n[1], upper_bound(n[1]) >> ELSE << "-latest" >>

\* find_with_vswhere, given what the vswhere process did: << >> is Err
find_with_vswhere(pattern, out, disk) ==
    CASE out.kind = "spawn_error" -> << >>
      [] out.kind = "banner"      -> << >>
      [] OTHER -> IF out.root \o pattern \in disk THEN << out.root \o pattern >> ELSE << >>

\* the years the standard locations are tried for
fallback_years(v) ==
    IF v # << >> THEN << vsversion_to_year(v[1]) >> ELSE YEARS

\* the standard locations in the order the three nested loops try them
standard_locations(e, v) ==
    LET ys == fallback_years(v)
        ny == Len(ys)
        ne == Len(EDITIONS)
        pf == program_files(e)
    IN  [ n \in 1..(Len(pf) * ny * ne) |->
            pf[((n-1) \div (ny * ne)) + 1]
              \o << "Microsoft Visual Studio" >>
              \o << ys[(((n-1) \div ne) % ny) + 1] >>
              \o << EDITIONS[((n-1) % ne) + 1] >>
              \o VCVARSALL_REL ]

\* find_vcvarsall: << >> is Err("Microsoft Visual Studio not found")
find_vcvarsall(e, v, out, disk) ==
    LET w    == find_with_vswhere(VCVARSALL_REL, out, disk)
        locs == standard_locations(e, v)
        hit  == { n \in 1..Len(locs) : locs[n] \in disk }
        f    == program_files_x86(e) \o LEGACY_REL
    IN  IF w # << >> THEN w
        ELSE IF hit # {} THEN << locs[CHOOSE n \in hit : \A m \in hit : n <= m] >>
        ELSE IF f \in disk THEN << f >>
        ELSE << >>

-----------------------------------------------------------------------------
(* The Path-List Normalizer *)

is_path_variable(name) == to_uppercase(name) \in PATH_LIKE_VARIABLES

\* The values filter_path_value may return: the entries are collected into a
\* HashSet and read back in its iteration order, which std leaves unspecified
\* (RandomState seeds every set differently), so any order of the distinct
\* entries is a possible result.
filter_path_value(path) ==
    { Join(p, SEMI) : p \in Perms(Range(Split(path, SEMI))) }

-----------------------------------------------------------------------------
(* The transcript of the cmd run *)

ERROR_MARKER == "[ERROR"
USAGE_LINE   == "Error in script usage. the correct usage is:"

\* cmd_output_parts (line 316)
split_pages(out) == Split(out, FF)

\* a check that lets extra pages through
pages_ok_at_least(ps) == Len(ps) >= 3

\* the pages are accepted (line 318)
pages_ok(ps) == Len(ps) = 3

lines_of(part) == Split(part, NL)

\* a filter that forgets the usage line
is_error_line_any_marker(i) == Contains(i, ERROR_MARKER)

\* the filter of lines 332-335
is_error_line(i) == Contains(i, ERROR_MARKER) /\ ~Contains(i, USAGE_LINE)

\* error_messages: the lines of vcvars_output the filter keeps, in order
error_lines(part) == SelectSeq(lines_of(part), is_error_line)

RECURSIVE insert_lines(_, _)
\* the loop of lines 343-357: a later line of the same name replaces an earlier
insert_lines(ls, m) ==
    IF Len(ls) = 0 THEN m
    ELSE LET i == Head(ls) IN
         IF ~Contains(i, EQ) THEN insert_lines(Tail(ls), m)
         ELSE LET kv == SplitOnce(i, EQ) IN
              insert_lines(Tail(ls),
                  [ k \in DOMAIN m \cup { kv[1] } |-> IF k = kv[1] THEN kv[2] ELSE m[k] ])

\* old_env_vars (lines 341-359)
parse_env(part) == insert_lines(lines_of(part), << >>)

\* a comparison that heeds the case of the letters
changed_case_sensitive(old, name, new_value) ==
    \/ name \notin DOMAIN old
    \/ old[name] # new_value

\* the condition of line 375
changed(old, name, new_value) ==
    \/ name \notin DOMAIN old
    \/ ~eq_ignore_ascii_case(old[name], new_value)

\* the values line 380-385 may hand to set_var for one changed variable
effective_values(name, new_value) ==
    IF is_path_variable(name) THEN filter_path_value(new_value) ELSE { new_value }

RECURSIVE diff_loop(_, _, _, _)
\* the loop of lines 365-392: the environments it may leave, each with the
\* set_var calls that led to it
diff_loop(ls, old, e, app) ==
    IF Len(ls) = 0 THEN { [ env |-> e, applied |-> app ] }
    ELSE LET i == Head(ls) IN
         IF ~Contains(i, EQ) THEN diff_loop(Tail(ls), old, e, app)
         ELSE LET kv == SplitOnce(i, EQ) IN
              IF changed(old, kv[1], kv[2])
              THEN UNION { diff_loop(Tail(ls), old, set_var(e, kv[1], v),
                                     Append(app, << kv[1], v >>))
                           : v \in effective_values(kv[1], kv[2]) }
              ELSE diff_loop(Tail(ls), old, e, app)

\* the directory of vswhere put in front of PATH
extended_path_prepend(e) ==
    LET path == IF var_os(e, << "PATH" >>) = << >> THEN << >> ELSE e[<< "PATH" >>]
    IN  Join(<< vswhere_path(e) >> \o Split(path, SEMI), SEMI)

\* lines 218-229: PATH with the directory of vswhere appended.  split_paths
\* cuts at every ';' outside double quotes and yields one empty path for an
\* empty PATH; join_paths puts ';' between the paths.  The values of the model
\* hold no double quote, with which join_paths would fail.
extended_path(e) ==
    LET path  == IF var_os(e, << "PATH" >>) = << >> THEN << >> ELSE e[<< "PATH" >>]
        paths == Append(Split(path, SEMI), vswhere_path(e))
    IN  Join(paths, SEMI)

-----------------------------------------------------------------------------
(* The inputs the model draws from *)

PF86 == << "C:\\PF86" >>
PF64 == << "C:\\PF" >>

InstallerDir == PF86 \o INSTALLER_REL
LegacyScript == PF86 \o LEGACY_REL

\* an installation root, as vswhere prints it and as the standard layout has it
Root(pf, year, ed) == pf \o << "Microsoft Visual Studio" >> \o << year >> \o << ed >>

Roots ==
    { Root(pf, y, ed) : pf \in { PF86, PF64 }, y \in { "2022", "2019" },
                        ed \in { "Professional", "Community" } }

\* the disks: at most MaxInstalled standard installations, with or without
\* the Installer directory and the legacy build tools
Disks ==
    { { r \o VCVARSALL_REL : r \in R } \cup I \cup L :
        R \in { X \in SUBSET Roots : Cardinality(X) <= MaxInstalled },
        I \in { {}, { InstallerDir } },
        L \in { {}, { LegacyScript } } }

\* what the vswhere process may do: fail to start, print its banner, or print
\* a root (the empty one: no installation matched)
VswhereOutputs ==
    { [ kind |-> "spawn_error" ], [ kind |-> "banner" ] }
      \cup { [ kind |-> "path", root |-> r ] : r \in Roots \cup { << >> } }

Selectors == { << >>, << "2022" >>, << "2019" >>, << "16.0" >>, << "12.0" >>, << "banana" >> }

BaseEnv ==
    (EnvKey(KEY_PF86) :> PF86) @@ (EnvKey(KEY_PF) :> PF64) @@ (<< "A" >> :> << "1" >>)

Without(e, key) == [ k \in DOMAIN e \ { key } |-> e[k] ]

\* the names and values of the environment dumps
TNames == << << "A" >>, << "B" >>, << "Path" >> >>

ValuePool(name) ==
    CASE name = << "A" >> -> { << "1" >> }
      [] name = << "B" >> -> { << "FOO" >>, << "foo" >>, << "3" >>,
                               << "U+00C9" >>, << "U+00E9" >> }
      [] OTHER            -> { << "a", SEMI, "a", SEMI, "b" >>, << "b", SEMI, "a" >> }

EnvMaps ==
    UNION { { m \in [ D -> UNION { ValuePool(n) : n \in D } ] :
                \A n \in D : m[n] \in ValuePool(n) }
            : D \in SUBSET Range(TNames) }

\* what `set` prints for the map m, its names in the given order: a line of
\* the shell first, one line per variable, every line ended by a line feed
Dump(m, order) ==
    LET present == SelectSeq(order, LAMBDA n : n \in DOMAIN m)
        ls == << << "C:\\>set" >> >>
                \o [ i \in 1..Len(present) |-> present[i] \o << EQ >> \o m[present[i]] ]
                \o << << >> >>
    IN  Join(ls, NL)

MID_BANNER == << "** Visual Studio Developer Command Prompt", NL >>
MID_USAGE  == << ERROR_MARKER, ":vcvarsall.bat] ", USAGE_LINE, NL, "Syntax:", NL >>
MID_BADARG == << ERROR_MARKER, ":vcvarsall.bat] Invalid argument found : bogus", NL,
                 ERROR_MARKER, ":vcvarsall.bat] ", USAGE_LINE, NL, "Syntax:", NL >>
MID_TWO    == << "banner", NL, ERROR_MARKER, ":one", NL,
                 ERROR_MARKER, ":vcvarsall.bat] ", USAGE_LINE, NL,
                 "text ", ERROR_MARKER, ":two", NL >>

Middles == { MID_BANNER, MID_USAGE, MID_BADARG, MID_TWO }

SmallMaps == { << >>, (<< "A" >> :> << "1" >>) }

\* the transcripts: all those of three pages, and of every other number of
\* pages up to MaxParts a few
Transcripts ==
    { Join(<< Dump(b, TNames), mid, Dump(a, TNames) >>, FF) :
        b \in EnvMaps, a \in EnvMaps, mid \in Middles }
    \cup
    { Join([ i \in 1..k |-> IF i = 2 THEN mid
                            ELSE IF i = 1 THEN Dump(b, TNames) ELSE Dump(a, TNames) ], FF) :
        k \in (1..MaxParts) \ { 3 }, b \in SmallMaps, a \in SmallMaps,
        mid \in { MID_BANNER, MID_BADARG } }

-----------------------------------------------------------------------------
(* setup_msvcdev_cmd, step by step *)

InitSetupRest ==
    /\ pc = "new"
    /\ env = env0
    /\ query = << >>
    /\ vswhere_result = << >>
    /\ vcvarsall = << >>
    /\ err = ""
    /\ cmd_output = << >>
    /\ parts = << >>
    /\ error_messages = << >>
    /\ old_env_vars = << >>
    /\ applied = << >>
    /\ child_env = << >>
    /\ run = 1
    /\ env_prev = << >>

FilterIdle ==
    /\ fp_in = << >>
    /\ fp_out = << >>

LaunchIdle ==
    /\ child = "none"
    /\ child_status = -1
    /\ lock = "free"
    /\ handler_set = FALSE
    /\ pending = 0
    /\ delivered = 0
    /\ hpc = "idle"
    /\ forwarded = 0
    /\ exit_code = -1

\* bail!/? : setup_msvcdev_cmd returns the error and main returns it
Fail(e) ==
    /\ pc' = "failed"
    /\ err' = e

\* line 211: Constants::new()?
ConstantsNew ==
    /\ pc = "new"
    /\ IF constants_new_ok(env, fs)
       THEN pc' = "platform" /\ err' = err
       ELSE Fail("Constants::new")
    /\ UNCHANGED << windows, env, env0, fs, vsversion, query, vswhere_result, vcvarsall, cmd_output,
                    parts, error_messages, old_env_vars, applied, child_env, run,
                    env_prev, filterVars, launchVars >>

\* lines 213-215
CheckPlatform ==
    /\ pc = "platform"
    /\ IF windows
       THEN pc' = "path" /\ err' = err
       ELSE Fail("This is not a Windows virtual environment!")
    /\ UNCHANGED << windows, env, env0, fs, vsversion, query, vswhere_result, vcvarsall, cmd_output,
                    parts, error_messages, old_env_vars, applied, child_env, run,
                    env_prev, filterVars, launchVars >>

\* lines 217-233
ExtendPath ==
    /\ pc = "path"
    /\ env' = set_var(env, << "PATH" >>, extended_path(env))
    /\ pc' = "find"
    /\ UNCHANGED << windows, env0, fs, vsversion, query, vswhere_result, vcvarsall, err, cmd_output,
                    parts, error_messages, old_env_vars, applied, child_env, run,
                    env_prev, filterVars, launchVars >>

\* line 275: constants.find_vcvarsall(&opt.vsversion)?
FindVcvarsall ==
    /\ pc = "find"
    /\ \E out \in VswhereOutputs :
         LET r == find_vcvarsall(env, vsversion, out, fs) IN
         /\ query' = version_pattern(vsversion)
         /\ vswhere_result' = find_with_vswhere(VCVARSALL_REL, out, fs)
         /\ IF r # << >>
            THEN vcvarsall' = r[1] /\ pc' = "cmd" /\ err' = err
            ELSE vcvarsall' = vcvarsall /\ Fail("Microsoft Visual Studio not found")
    /\ UNCHANGED << windows, env, env0, fs, vsversion, cmd_output,
                    parts, error_messages, old_env_vars, applied, child_env, run,
                    env_prev, filterVars, launchVars >>

\* lines 290-313: the batch file is run by cmd, or cmd cannot be started
RunCmd ==
    /\ pc = "cmd"
    /\ \/ \E t \in Transcripts :
            cmd_output' = t /\ pc' = "split" /\ err' = err
       \/ cmd_output' = cmd_output /\ Fail("command.output()")
    /\ UNCHANGED << windows, env, env0, fs, vsversion, query, vswhere_result, vcvarsall,
                    parts, error_messages, old_env_vars, applied, child_env, run,
                    env_prev, filterVars, launchVars >>

\* lines 315-320
SplitOutput ==
    /\ pc = "split"
    /\ parts' = split_pages(cmd_output)
    /\ IF ~pages_ok(parts')
       THEN Fail("Couldn't split the output into pages")
       ELSE pc' = "errors" /\ err' = err
    /\ UNCHANGED << windows, env, env0, fs, vsversion, query, vswhere_result, vcvarsall, cmd_output,
                    error_messages, old_env_vars, applied, child_env, run,
                    env_prev, filterVars, launchVars >>

\* lines 329-338
CheckErrors ==
    /\ pc = "errors"
    /\ error_messages' = error_lines(parts[2])
    /\ IF error_messages' # << >>
       THEN Fail("Invalid parameters")
       ELSE pc' = "old" /\ err' = err
    /\ UNCHANGED << windows, env, env0, fs, vsversion, query, vswhere_result, vcvarsall, cmd_output,
                    parts, old_env_vars, applied, child_env, run,
                    env_prev, filterVars, launchVars >>

\* lines 340-359
ParseOld ==
    /\ pc = "old"
    /\ old_env_vars' = parse_env(parts[1])
    /\ pc' = "diff"
    /\ UNCHANGED << windows, env, env0, fs, vsversion, query, vswhere_result, vcvarsall, err, cmd_output,
                    parts, error_messages, applied, child_env, run,
                    env_prev, filterVars, launchVars >>

\* lines 361-396: the loop over the new environment, then Ok(())
ApplyDiff ==
    /\ pc = "diff"
    /\ \E r \in diff_loop(lines_of(parts[3]), old_env_vars, env, << >>) :
         /\ env' = r.env
         /\ applied' = r.applied
    /\ pc' = "done"
    /\ UNCHANGED << windows, env0, fs, vsversion, query, vswhere_result, vcvarsall, err, cmd_output,
                    parts, error_messages, old_env_vars, child_env, run,
                    env_prev, filterVars, launchVars >>

\* line 408 with the environment: the child inherits it, or cannot be started
SpawnChild ==
    /\ pc = "done"
    /\ \/ child_env' = env /\ child' = "running" /\ pc' = "spawned" /\ err' = err
       \/ child_env' = child_env /\ child' = child /\ Fail("Unable to spawn program")
    /\ UNCHANGED << windows, env, env0, fs, vsversion, query, vswhere_result, vcvarsall, cmd_output,
                    parts, error_messages, old_env_vars, applied, run,
                    env_prev, filterVars, child_status, lock, handler_set, pending,
                    delivered, hpc, forwarded, exit_code >>

Locate == ConstantsNew \/ CheckPlatform \/ ExtendPath \/ FindVcvarsall

Capture == RunCmd \/ SplitOutput \/ CheckErrors \/ ParseOld \/ ApplyDiff

\* the disks of the whole-pipeline specification: one installation, with and
\* without the Installer directory, and an empty disk
SetupDisks ==
    { { InstallerDir, Root(PF64, "2022", "Community") \o VCVARSALL_REL },
      { Root(PF64, "2022", "Community") \o VCVARSALL_REL },
      { InstallerDir } }

Init ==
    /\ windows \in BOOLEAN
    /\ env0 \in { BaseEnv, BaseEnv @@ (<< "PATH" >> :> << "p" >>) }
    /\ fs \in SetupDisks
    /\ vsversion = << "2022" >>
    /\ InitSetupRest
    /\ FilterIdle
    /\ LaunchIdle

Next == Locate \/ Capture \/ SpawnChild

Spec == Init /\ [][Next]_vars

\* discovery alone, over every disk, selector and start environment
InitLocate ==
    /\ windows \in BOOLEAN
    /\ env0 \in { BaseEnv, Without(BaseEnv, EnvKey(KEY_PF86)), Without(BaseEnv, EnvKey(KEY_PF)) }
    /\ fs \in Disks
    /\ vsversion \in Selectors
    /\ InitSetupRest
    /\ FilterIdle
    /\ LaunchIdle

SpecLocate == InitLocate /\ [][Locate]_vars

-----------------------------------------------------------------------------
(* filter_path_value on its own *)

PathTokens == { "C:\\A", "C:\\B", SEMI }

SetupIdle ==
    /\ windows = TRUE
    /\ env0 = BaseEnv
    /\ fs = {}
    /\ vsversion = << >>
    /\ InitSetupRest

InitFilter ==
    /\ fp_in \in SeqsUpTo(PathTokens, MaxLen)
    /\ fp_out = << >>
    /\ SetupIdle
    /\ LaunchIdle

\* one call of filter_path_value: fp_out holds the returned value
FilterPathValue ==
    /\ fp_out = << >>
    /\ \E r \in filter_path_value(fp_in) : fp_out' = << r >>
    /\ UNCHANGED << fp_in, setupVars, launchVars >>

SpecFilter == InitFilter /\ [][FilterPathValue]_vars

-----------------------------------------------------------------------------
(* setup_msvcdev_cmd run again in the same process, against a script that *)
(* prepends to the path-list variables (the comment of lines 376-379)     *)

\* what the script puts in front of each path-list variable
ScriptAdds ==
    (<< "PATH" >> :> << "vc\\bin" >>) @@ (<< "INCLUDE" >> :> << "vc\\include" >>)

\* the environment of the shell after the script: set X=add;%X%
vcvars_env(e) ==
    [ k \in DOMAIN e \cup DOMAIN ScriptAdds |->
        IF k \in DOMAIN ScriptAdds
        THEN ScriptAdds[k] \o << SEMI >> \o (IF k \in DOMAIN e THEN e[k] ELSE << >>)
        ELSE e[k] ]

\* the order `set` lists the variables of the model in
KeyOrder ==
    << << "A" >>, << "INCLUDE" >>, << "PATH" >>, EnvKey(KEY_PF), EnvKey(KEY_PF86) >>

\* lines 290-313 with that script: cmd inherits the process environment
RunVcvars ==
    /\ pc = "cmd"
    /\ cmd_output' = Join(<< Dump(env, KeyOrder), MID_BANNER,
                             Dump(vcvars_env(env), KeyOrder) >>, FF)
    /\ pc' = "split"
    /\ UNCHANGED << windows, env, env0, fs, vsversion, query, vswhere_result, vcvarsall,
                    err, parts, error_messages, old_env_vars, applied, child_env, run,
                    env_prev, filterVars, launchVars >>

\* setup_msvcdev_cmd(&opt) is called again with the same opt
Rerun ==
    /\ pc = "done"
    /\ run < MaxRuns
    /\ run' = run + 1
    /\ env_prev' = env
    /\ pc' = "new"
    /\ cmd_output' = << >>
    /\ parts' = << >>
    /\ old_env_vars' = << >>
    /\ applied' = << >>
    /\ UNCHANGED << windows, env, env0, fs, vsversion, query, vswhere_result, vcvarsall,
                    err, error_messages, child_env, filterVars, launchVars >>

InitTwice ==
    /\ windows = TRUE
    /\ env0 \in { BaseEnv,
                  BaseEnv @@ (<< "PATH" >> :> << "p" >>),
                  BaseEnv @@ (<< "PATH" >> :> << "vc\\bin", SEMI, "p" >>),
                  BaseEnv @@ (<< "PATH" >> :> << "p" >>) @@ (<< "INCLUDE" >> :> << "i" >>) }
    /\ fs = { InstallerDir, Root(PF64, "2022", "Community") \o VCVARSALL_REL }
    /\ vsversion \in { << >>, << "2022" >> }
    /\ InitSetupRest
    /\ FilterIdle
    /\ LaunchIdle

NextTwice ==
    Locate \/ RunVcvars \/ SplitOutput \/ CheckErrors \/ ParseOld \/ ApplyDiff \/ Rerun

SpecTwice == InitTwice /\ [][NextTwice]_vars

-----------------------------------------------------------------------------
(* main from line 406 on, entered with setup_msvcdev_cmd having returned   *)
(* Ok: the child, the Mutex around its handle, and, in a cfg(unix) build,  *)
(* the ctrlc handler thread.  (Lines 213-215 make setup_msvcdev_cmd return *)
(* Err in every build without cfg(windows); SpecLaunch takes the call of   *)
(* line 404 by its signature, Result<()>, and follows main after Ok.)      *)

\* the launcher process is alive
Alive == pc \in { "done", "spawned", "lock", "wait", "exit" }

\* the exit statuses of the child the model draws from: an exit code, or
\* the negated number of the signal that ended it
SIGINT == 2
ExitCodes == { 0, 1 }

\* lines 412-421: ctrlc::set_handler(...)?, compiled in with cfg(unix) only
SetHandler ==
    /\ pc = "spawned"
    /\ IF windows
       THEN handler_set' = handler_set /\ pc' = "lock" /\ err' = err
       ELSE \/ handler_set' = TRUE /\ pc' = "lock" /\ err' = err
            \/ handler_set' = handler_set /\ Fail("Unable to set the signal handler")
    /\ UNCHANGED << windows, env, env0, fs, vsversion, query, vswhere_result, vcvarsall,
                    cmd_output, parts, error_messages, old_env_vars, applied, child_env,
                    run, env_prev, filterVars, child, child_status, lock, pending,
                    delivered, hpc, forwarded, exit_code >>

\* line 423, arc.lock(): the guard is a temporary of the whole statement
MainLock ==
    /\ pc = "lock"
    /\ lock = "free"
    /\ lock' = "main"
    /\ pc' = "wait"
    /\ UNCHANGED << windows, env, env0, fs, vsversion, query, vswhere_result, vcvarsall,
                    err, cmd_output, parts, error_messages, old_env_vars, applied,
                    child_env, run, env_prev, filterVars, child, child_status,
                    handler_set, pending, delivered, hpc, forwarded, exit_code >>

\* line 423, .wait() returns once the child has exited; the guard is dropped
\* at the end of the statement
MainWait ==
    /\ pc = "wait"
    /\ child = "exited"
    /\ child' = "reaped"
    /\ lock' = "free"
    /\ pc' = "exit"
    /\ UNCHANGED << windows, env, env0, fs, vsversion, query, vswhere_result, vcvarsall,
                    err, cmd_output, parts, error_messages, old_env_vars, applied,
                    child_env, run, env_prev, filterVars, child_status,
                    handler_set, pending, delivered, hpc, forwarded, exit_code >>

\* lines 425-436: process::exit with the code; without one, with 128 + the
\* signal (cfg(unix)) or with 127 (cfg(windows))
MainExit ==
    /\ pc = "exit"
    /\ exit_code' = IF child_status >= 0 THEN child_status
                     ELSE IF windows THEN 127 ELSE 128 - child_status
    /\ pc' = "exited"
    /\ UNCHANGED << windows, env, env0, fs, vsversion, query, vswhere_result, vcvarsall,
                    err, cmd_output, parts, error_messages, old_env_vars, applied,
                    child_env, run, env_prev, filterVars, child, child_status, lock,
                    handler_set, pending, delivered, hpc, forwarded >>

\* a SIGINT reaches the launcher: with the handler set it is queued for the
\* ctrlc thread, without it the default disposition ends the launcher
Sigint ==
    /\ Alive
    /\ delivered < MaxSignals
    /\ delivered' = delivered + 1
    /\ IF handler_set
       THEN pending' = pending + 1 /\ pc' = pc /\ exit_code' = exit_code
       ELSE pending' = pending /\ pc' = "killed" /\ exit_code' = 128 + SIGINT
    /\ UNCHANGED << windows, env, env0, fs, vsversion, query, vswhere_result, vcvarsall,
                    err, cmd_output, parts, error_messages, old_env_vars, applied,
                    child_env, run, env_prev, filterVars, child, child_status, lock,
                    handler_set, hpc, forwarded >>

\* the ctrlc thread takes a queued signal and calls the handler
HandlerWake ==
    /\ Alive
    /\ hpc = "idle"
    /\ pending > 0
    /\ pending' = pending - 1
    /\ hpc' = "lock"
    /\ UNCHANGED << setupVars, filterVars, child, child_status, lock, handler_set,
                    delivered, forwarded, exit_code >>

\* line 418, arc_handler.lock()
HandlerLock ==
    /\ Alive
    /\ hpc = "lock"
    /\ lock = "free"
    /\ lock' = "handler"
    /\ hpc' = "id"
    /\ UNCHANGED << setupVars, filterVars, child, child_status, handler_set, pending,
                    delivered, forwarded, exit_code >>

\* line 418, .id(): the guard is dropped at the end of the let
HandlerId ==
    /\ Alive
    /\ hpc = "id"
    /\ lock' = "free"
    /\ hpc' = "kill"
    /\ UNCHANGED << setupVars, filterVars, child, child_status, handler_set, pending,
                    delivered, forwarded, exit_code >>

\* line 419, kill(pid, SIGINT).unwrap(): a running child receives the signal,
\* a zombie ignores it, and with the child reaped the pid is gone (ESRCH)
HandlerKill ==
    /\ Alive
    /\ hpc = "kill"
    /\ forwarded' = IF child = "running" THEN forwarded + 1 ELSE forwarded
    /\ hpc' = IF child = "reaped" THEN "panicked" ELSE "idle"
    /\ UNCHANGED << setupVars, filterVars, child, child_status, lock, handler_set,
                    pending, delivered, exit_code >>

\* the child ends: by itself with a code, or by a SIGINT it was forwarded
ChildExit ==
    /\ child = "running"
    /\ child' = "exited"
    /\ child_status' \in ExitCodes \cup (IF forwarded > 0 THEN { -SIGINT } ELSE {})
    /\ UNCHANGED << setupVars, filterVars, lock, handler_set, pending, delivered,
                    hpc, forwarded, exit_code >>

InitLaunch ==
    /\ windows \in BOOLEAN
    /\ env0 \in { BaseEnv, BaseEnv @@ (<< "PATH" >> :> << "p" >>) }
    /\ env = env0
    /\ fs = {}
    /\ vsversion = << >>
    /\ pc = "done"
    /\ query = << >>
    /\ vswhere_result = << >>
    /\ vcvarsall = << >>
    /\ err = ""
    /\ cmd_output = << >>
    /\ parts = << >>
    /\ error_messages = << >>
    /\ old_env_vars = << >>
    /\ applied = << >>
    /\ child_env = << >>
    /\ run = 1
    /\ env_prev = << >>
    /\ FilterIdle
    /\ LaunchIdle

NextLaunch ==
    \/ SpawnChild \/ SetHandler \/ MainLock \/ MainWait \/ MainExit
    \/ Sigint \/ HandlerWake \/ HandlerLock \/ HandlerId \/ HandlerKill
    \/ ChildExit

SpecLaunch == InitLaunch /\ [][NextLaunch]_vars

-----------------------------------------------------------------------------
(* The claims *)

\* ---- what the claims speak of ----

RECURSIVE KeepFirst(_)
\* the entries of a list without the repeats, each at its first occurrence
KeepFirst(es) ==
    IF Len(es) = 0 THEN << >>
    ELSE LET r == KeepFirst(SubSeq(es, 1, Len(es) - 1))
             x == es[Len(es)]
         IN  IF x \in Range(r) THEN r ELSE Append(r, x)

\* letter case folded for every cased letter (U+00C9 is the capital of U+00E9),
\* token-wise
FullLower(t) ==
    CASE t = "FOO" -> "foo" [] t = "U+00C9" -> "U+00E9" [] OTHER -> t

\* a map read off a page of the transcript: name = value, one per line
MapOf(part) ==
    LET ls == Split(part, NL)
        kv == { i \in 1..Len(ls) : \E j \in 1..Len(ls[i]) : ls[i][j] = EQ }
        nm(i) == SubSeq(ls[i], 1, IndexOf(ls[i], EQ) - 1)
        vl(i) == SubSeq(ls[i], IndexOf(ls[i], EQ) + 1, Len(ls[i]))
    IN  [ n \in { nm(i) : i \in kv } |->
            vl(CHOOSE i \in kv : nm(i) = n /\ \A j \in kv : nm(j) = n => j <= i) ]

BeforeMap == MapOf(parts[1])
AfterMap  == MapOf(parts[3])

SameIgnoringAsciiCase(a, b) ==
    [ i \in 1..Len(a) |-> AsciiLower(a[i]) ] = [ i \in 1..Len(b) |-> AsciiLower(b[i]) ]

SameIgnoringCase(a, b) ==
    [ i \in 1..Len(a) |-> FullLower(a[i]) ] = [ i \in 1..Len(b) |-> FullLower(b[i]) ]

\* the names of the after-map that are new or changed, under each comparison
DiffNamesAscii ==
    { n \in DOMAIN AfterMap :
        n \notin DOMAIN BeforeMap \/ ~SameIgnoringAsciiCase(BeforeMap[n], AfterMap[n]) }

DiffNamesAnyCase ==
    { n \in DOMAIN AfterMap :
        n \notin DOMAIN BeforeMap \/ ~SameIgnoringCase(BeforeMap[n], AfterMap[n]) }

AppliedNames == { applied[i][1] : i \in 1..Len(applied) }

\* the diff loop has run over a transcript of three pages
DiffDone == pc \in { "done", "spawned" } /\ Len(parts) = 3

FormFeeds == Cardinality({ i \in 1..Len(cmd_output) : cmd_output[i] = FF })

\* variable k has the same state (unset, or set to the same value) in e and f
SameAt(e, f, k) ==
    /\ (k \in DOMAIN e) = (k \in DOMAIN f)
    /\ k \in DOMAIN e => e[k] = f[k]

\* PATH of the start environment with the Installer directory appended
StartPathExtended ==
    (IF << "PATH" >> \in DOMAIN env0 THEN env0[<< "PATH" >>] ELSE << >>)
        \o << SEMI >> \o InstallerDir

\* ---- C1 (SpecFilter) ----
\* C1: filter_path_value returns the distinct entries of its input, each once,
\* in the order of their first occurrence.
C1_FirstOccurrenceOrder ==
    fp_out # << >> => fp_out[1] = Join(KeepFirst(Split(fp_in, SEMI)), SEMI)

\* ---- C2 (SpecTwice) ----
\* C2: when setup_msvcdev_cmd has run again against the prepending script,
\* every path-list variable has the value it had after the run before.
C2_SecondRunChangesNothing ==
    (run >= 2 /\ pc = "done") =>
        \A k \in PATH_LIKE_VARIABLES : SameAt(env, env_prev, k)

\* ---- C3 (Spec) ----
\* C3 as stated: the variables the diff loop applies are exactly the names of
\* the after-map that are absent from the before-map or whose value differs
\* from the old one when letter case is ignored.
C3_AppliedIsDiffIgnoringCase ==
    DiffDone => AppliedNames = DiffNamesAnyCase

\* C3 as amended: the same with the comparison ignoring the case of the ASCII
\* letters only; a variable that is not a path-list variable is set to the
\* value of the after-map, and each applied variable is applied once.
C3_AppliedIsDiffIgnoringAsciiCase ==
    DiffDone =>
        /\ AppliedNames = DiffNamesAscii
        /\ Len(applied) = Cardinality(DiffNamesAscii)
        /\ \A i \in 1..Len(applied) :
             ~is_path_variable(applied[i][1]) =>
                 /\ applied[i][2] = AfterMap[applied[i][1]]
                 /\ env[EnvKey(applied[i][1])] = AfterMap[applied[i][1]]

\* B changed only in the case of its ASCII letters and was left alone, while
\* the new variable A was applied
C3_Witness ==
    /\ DiffDone
    /\ << "B" >> \in DOMAIN BeforeMap /\ BeforeMap[<< "B" >>] = << "FOO" >>
    /\ << "B" >> \in DOMAIN AfterMap /\ AfterMap[<< "B" >>] = << "foo" >>
    /\ << "A" >> \notin DOMAIN BeforeMap
    /\ AppliedNames = { << "A" >> }

\* ---- C4 (Spec) ----
\* C4: once the output is split, it is accepted exactly when it holds two form
\* feeds, and then the three pages are its stages in order; any other number
\* of pages fails with the split error, and then no set_var of the diff was
\* made.
C4_ThreePagesOrReject ==
    parts # << >> =>
        /\ (err = "Couldn't split the output into pages") = (FormFeeds # 2)
        /\ FormFeeds = 2 =>
             /\ Len(parts) = 3
             /\ cmd_output = parts[1] \o << FF >> \o parts[2] \o << FF >> \o parts[3]
             /\ \A i \in 1..3 : \A j \in 1..Len(parts[i]) : parts[i][j] # FF
        /\ FormFeeds # 2 =>
             /\ pc = "failed"
             /\ applied = << >>
             /\ \A k \in (DOMAIN env \cup DOMAIN env0) \ { << "PATH" >> } : SameAt(env, env0, k)

\* a transcript of four pages was rejected
C4_Witness ==
    /\ Len(parts) = 4
    /\ pc = "failed"
    /\ err = "Couldn't split the output into pages"

\* ---- C5 (Spec) ----
\* the lines of the middle page that carry the error marker and are not the
\* usage line, by their index
OtherErrorLines ==
    LET ls == Split(parts[2], NL) IN
    { i \in 1..Len(ls) :
        /\ \E j \in 1..Len(ls[i]) : ls[i][j] = ERROR_MARKER
        /\ \A j \in 1..Len(ls[i]) : ls[i][j] # USAGE_LINE }

\* C5: once the middle page has been scanned: with no error-marked line other
\* than the usage line the run does not fail with "Invalid parameters"; with
\* any other, it fails with it, the message lists exactly those lines in
\* their order, and no set_var of the diff was made.
C5_UsageLineIsBenign ==
    (Len(parts) = 3 /\ pc # "errors") =>
        LET ls == Split(parts[2], NL) IN
        /\ OtherErrorLines = {} => err # "Invalid parameters"
        /\ OtherErrorLines # {} =>
             /\ pc = "failed" /\ err = "Invalid parameters"
             /\ Len(error_messages) = Cardinality(OtherErrorLines)
             /\ \A n \in 1..Len(error_messages) :
                  \E i \in OtherErrorLines :
                     /\ error_messages[n] = ls[i]
                     /\ Cardinality({ j \in OtherErrorLines : j < i }) = n - 1
             /\ applied = << >>

\* the page with two other error lines around the usage line was refused,
\* and the message holds those two
C5_Witness ==
    /\ Len(parts) = 3
    /\ parts[2] = MID_TWO
    /\ pc = "failed" /\ err = "Invalid parameters"
    /\ error_messages = << << ERROR_MARKER, ":one" >>, << "text ", ERROR_MARKER, ":two" >> >>

\* the usage line alone went through
C5_WitnessBenign ==
    /\ Len(parts) = 3
    /\ parts[2] = MID_USAGE
    /\ pc = "done"

\* ---- C8 (Spec) ----
\* the variables of the diff, by their key in the environment
DiffKeys == { EnvKey(n) : n \in DiffNamesAscii }

\* C8 as stated: the child's environment differs from the start environment
\* only in the variables of the diff, and before the diff loop has run the
\* environment is the start environment, also after a failure.
C8_OnlyDiffChanges ==
    /\ pc = "spawned" =>
         \A k \in (DOMAIN child_env \cup DOMAIN env0) \ DiffKeys : SameAt(child_env, env0, k)
    /\ applied = << >> => env = env0

\* C8 as amended: the same but for PATH, which lines 217-233 extend with the
\* Installer directory before the discovery: a PATH outside the diff has the
\* start value with that directory appended; a variable of the diff has the
\* value of the after-map (for a path-list variable: its entries); up to the
\* diff loop nothing but PATH differs from the start, and PATH only by that
\* extension.
C8_OnlyDiffAndPathChange ==
    /\ pc = "spawned" =>
         /\ child_env = env
         /\ \A k \in (DOMAIN child_env \cup DOMAIN env0) \ DiffKeys :
              IF k = << "PATH" >>
              THEN k \in DOMAIN child_env /\ child_env[k] = StartPathExtended
              ELSE SameAt(child_env, env0, k)
         /\ \A n \in DiffNamesAscii :
              /\ EnvKey(n) \in DOMAIN child_env
              /\ Range(Split(child_env[EnvKey(n)], SEMI)) = Range(Split(AfterMap[n], SEMI))
              /\ ~is_path_variable(n) => child_env[EnvKey(n)] = AfterMap[n]
    /\ applied = << >> =>
         /\ \A k \in (DOMAIN env \cup DOMAIN env0) \ { << "PATH" >> } : SameAt(env, env0, k)
         /\ \/ SameAt(env, env0, << "PATH" >>)
            \/ << "PATH" >> \in DOMAIN env /\ env[<< "PATH" >>] = StartPathExtended
         /\ pc \in { "new", "platform", "path" } => env = env0

\* the child was spawned after a diff that held B and not PATH
C8_Witness ==
    /\ pc = "spawned"
    /\ << "PATH" >> \notin DiffKeys
    /\ << "B" >> \in DiffKeys
    /\ << "PATH" >> \in DOMAIN env0
    /\ child_env[<< "PATH" >>] # env0[<< "PATH" >>]

\* ---- C6, C9, C10 (SpecLocate) ----
\* the standard locations of the request that exist on disk
StdOnDisk(v) ==
    LET locs == standard_locations(env0, v) IN
    { p \in fs : \E n \in 1..Len(locs) : locs[n] = p }

\* the place of a year in YEARS: the newest is 1
YearIndex(y) == CHOOSE i \in 1..Len(YEARS) : YEARS[i] = y

\* the year of a standard location
YearOf(p) == p[3]

\* C6: with no result from vswhere and no selector, the script found is the
\* standard location of the newest year on disk, whatever its edition and
\* its program-files root.
C6_NewestYearFirst ==
    (pc = "cmd" /\ vsversion = << >> /\ vswhere_result = << >> /\ StdOnDisk(<< >>) # {}) =>
        /\ vcvarsall \in StdOnDisk(<< >>)
        /\ \A p \in StdOnDisk(<< >>) : YearIndex(YearOf(vcvarsall)) <= YearIndex(YearOf(p))

\* C9: the query made to vswhere is -latest exactly when no selector was
\* given; a year alias is queried by its version number, and any other
\* selector by itself, each with the window up to <major>.9.
C9_SelectorBecomesQuery ==
    query # << >> =>
        IF vsversion = << >> THEN query = << "-latest" >>
        ELSE LET s == vsversion[1]
                 n == IF s \in DOMAIN vs_year_version THEN vs_year_version[s] ELSE s
             IN  query = << "-version", n, upper_bound(n) >>

\* a candidate of the fallback search, or the legacy script, is on disk
FallbackOnDisk == StdOnDisk(vsversion) # {} \/ LegacyScript \in fs

\* C10: on Windows, with both program-files variables set, discovery does not
\* fail while a fallback candidate is on disk, whatever becomes of vswhere and
\* of its Installer directory; "not found" means no candidate is on disk.
C10_LocatorAbsenceNotFatal ==
    /\ (windows /\ EnvKey(KEY_PF86) \in DOMAIN env0 /\ EnvKey(KEY_PF) \in DOMAIN env0) =>
           (FallbackOnDisk => pc # "failed")
    /\ err = "Microsoft Visual Studio not found" => ~FallbackOnDisk

=============================================================================
